---- MODULE Spec2Model ----
(***************************************************************************)
(* SnapFold (snapfold.py): scan a directory tree, filter the files, render *)
(* a tree overview, bundle the files into one markdown document and save   *)
(* it under a name chosen by the naming mode.                              *)
(*                                                                         *)
(* A file or directory name is a sequence of one-character strings, a path *)
(* is a sequence of names (pathlib's Path.parts).                          *)
(***************************************************************************)
EXTENDS Integers, Sequences, FiniteSets, TLC

VARIABLES
    rootKind,    \* what config["input"] resolves to: "dir", "file" or "missing"
    fs,          \* the files under the root: relative parts -> outcome of stat()
    config,      \* the configuration mapping main() works with
    pc,          \* position of the run inside main()
    pending,     \* paths root.rglob("*") has still to yield
    collected,   \* list_files: the list `collected`; later the `files` of main
    md,          \* bundle_files: the document built so far
    todo,        \* bundle_files: files the for loop has still to visit
    failed,      \* bundle_files: files whose read_text raised
    tree,        \* result of the last generate_tree call
    disk,        \* the output folder: whether it exists, file name -> text
    now,         \* wall clock, in ticks of half a minute
    resolved,    \* one record per save_output call: the path it wrote and the names it found
    added        \* names of the files other programs put into the output folder

vars == <<rootKind, fs, config, pc, pending, collected, md, todo, failed,
          tree, disk, now, resolved, added>>

----------------------------------------------------------------------------
(* Bounds *)

MaxFiles == 3        \* files under the scan root
MaxList == 3         \* length of a file list handed to bundle_files / generate_tree
MaxRuns == 3         \* save_output calls on one output folder
MaxClock == 3        \* ticks the clock advances
MaxAdded == 2        \* files other programs add to the output folder

----------------------------------------------------------------------------
(* Strings *)

\* ord(): the code points of the characters that occur in the model
Ord(c) ==
    CASE c = "." -> 46 [] c = "/" -> 47
      [] c = "J" -> 74 [] c = "N" -> 78 [] c = "S" -> 83
      [] c = "a" -> 97 [] c = "b" -> 98 [] c = "c" -> 99 [] c = "d" -> 100
      [] c = "j" -> 106 [] c = "n" -> 110 [] c = "p" -> 112 [] c = "r" -> 114
      [] c = "s" -> 115 [] c = "y" -> 121

\* str.lower() on one character
LowerChar(c) ==
    CASE c = "J" -> "j" [] c = "N" -> "n" [] c = "S" -> "s" [] OTHER -> c

\* str.lower()
Lower(s) == [i \in 1..Len(s) |-> LowerChar(s[i])]

\* str.__lt__: comparison by code point, a proper prefix is smaller
RECURSIVE StrLess(_, _)
StrLess(a, b) ==
    IF b = <<>> THEN FALSE
    ELSE IF a = <<>> THEN TRUE
    ELSE IF Ord(Head(a)) # Ord(Head(b)) THEN Ord(Head(a)) < Ord(Head(b))
    ELSE StrLess(Tail(a), Tail(b))

\* str.lstrip(".")
RECURSIVE LStripDot(_)
LStripDot(s) ==
    IF s # <<>> /\ Head(s) = "." THEN LStripDot(Tail(s)) ELSE s

\* str.rfind("."): the last index of a dot, 0 if there is none
RFindDot(s) ==
    LET dots == {i \in 1..Len(s) : s[i] = "."}
    IN IF dots = {} THEN 0 ELSE CHOOSE i \in dots : \A j \in dots : j <= i

\* PurePath.suffix: the last dot and what follows it, unless the dot is the
\* first or the last character of the name
Suffix(name) ==
    LET i == RFindDot(name)
    IN IF 1 < i /\ i < Len(name) THEN SubSeq(name, i, Len(name)) ELSE <<>>

----------------------------------------------------------------------------
(* The scanned file system *)

nB   == <<"b", ".", "J", "S">>     \* b.JS
nA   == <<"a", ".", "j", "s">>     \* a.js
nC   == <<"c", ".", "p", "y">>     \* c.py
nD   == <<"d">>
nN   == <<"n">>
nUN  == <<"N">>
nR   == <<"r">>
nSep == <<"/">>

\* Path(config["input"]).resolve(): an absolute path, here /r
RootParts == <<nSep, nR>>

\* the files a snapshot of the tree may hold, as parts relative to the root
PathUniverse ==
    { <<nB>>,            \* b.JS
      <<nD, nA>>,        \* d/a.js
      <<nD, nN>>,        \* d/n
      <<nN, nD, nA>>,    \* n/d/a.js
      <<nUN, nC>> }      \* N/c.py

\* DEFAULT_CONFIG["max_file_size"]
DefaultMaxFileSize == 2 * 1024 * 1024

\* what stat() does on an entry that is not a directory:
\*   "none"     it succeeds, the entry is a regular file of st_size bytes
\*   "dangling" a symlink whose target is missing (ENOENT)
\*   "EACCES"   the entry may not be examined (PermissionError)
\*   "removed"  it succeeds when is_file() asks and the file is gone right after
StatErrors == {"dangling", "EACCES", "removed"}

StatOutcomes ==
    {[err |-> "none", st_size |-> s] : s \in {DefaultMaxFileSize, DefaultMaxFileSize + 1}}
        \cup {[err |-> e, st_size |-> 0] : e \in StatErrors}

\* every non-empty prefix of a file's parts: the files and their directories
Nodes(files) == UNION { {SubSeq(f, 1, k) : k \in 1..Len(f)} : f \in files }

\* os.scandir(dir): the entries directly inside dir
Children(files, dir) ==
    {n \in Nodes(files) : Len(n) = Len(dir) + 1 /\ SubSeq(n, 1, Len(dir)) = dir}

\* every order in which a set can be enumerated
Perms(S) ==
    {s \in [1..Cardinality(S) -> S] : \A i, j \in 1..Cardinality(S) : i # j => s[i] # s[j]}

\* Path.is_dir() on an entry of the tree
IsDir(files, n) == n \notin files

\* the directories among the entries of a listing, in listing order
SubDirs(files, listing) == SelectSeq(listing, LAMBDA n : IsDir(files, n))

\* root.rglob("*") on directory dir: the entries of dir as scandir enumerates
\* them, then the same for each subdirectory in that order. The enumeration
\* order of a directory is whatever the file system gives.
RECURSIVE Rglob(_, _)
RECURSIVE RglobEach(_, _)
Rglob(files, dir) ==
    UNION { {listing \o rest : rest \in RglobEach(files, SubDirs(files, listing))} :
            listing \in Perms(Children(files, dir)) }

RglobEach(files, dirs) ==
    IF dirs = <<>> THEN {<<>>}
    ELSE {a \o b : a \in Rglob(files, Head(dirs)), b \in RglobEach(files, Tail(dirs))}

\* a root that is missing or not a directory: rglob yields nothing
RglobRoot(kind, files) == IF kind = "dir" THEN Rglob(files, <<>>) ELSE {<<>>}

----------------------------------------------------------------------------
(* Configuration *)

fmtHtml == <<"h", "t", "m", "l">>
fmtCss  == <<"c", "s", "s">>
fmtJs   == <<"j", "s">>

\* DEFAULT_CONFIG["only_formats"]
DefaultOnlyFormats == <<fmtHtml, fmtCss, fmtJs>>

\* the only_formats lists of the model: the default, and "js," as the config
\* parser splits it (the second element is the empty string)
OnlyFormatsChoices == {DefaultOnlyFormats, <<fmtJs, <<>>>>}

\* the ignore lists of the model: none, a name inside the tree, a name above it
IgnoreChoices == {{}, {nN}, {nR}}

NamingModes == {"timestamp", "increment", "overwrite", "Increment", "daily"}

\* DEFAULT_CONFIG, with the short names of the model in "ignore"
DefaultConfig ==
    [ ignore |-> {nN},
      max_file_size |-> DefaultMaxFileSize,
      only_formats |-> DefaultOnlyFormats,
      enable_only_formats |-> FALSE,
      include_tree |-> TRUE,
      naming_mode |-> "increment",
      output |-> [stem |-> "SnapFold", suffix |-> ".md"] ]

\* the file systems of the model: at most MaxFiles files, each with what stat() does on it
FileSystems ==
    UNION { [F -> StatOutcomes] :
            F \in {S \in SUBSET PathUniverse : Cardinality(S) <= MaxFiles} }

----------------------------------------------------------------------------
(* list_files *)

\* path.is_file(): stat() and S_ISREG; pathlib turns ENOENT into False and
\* lets every other error through
IsFileRaises(tree_, path) == path \in DOMAIN tree_ /\ tree_[path].err = "EACCES"

IsFile(tree_, path) == path \in DOMAIN tree_ /\ tree_[path].err \in {"none", "removed"}

\* path.stat() right after is_file() returned True
StatRaises(tree_, path) == tree_[path].err = "removed"

\* `x in list`
InList(x, list) == \E i \in 1..Len(list) : list[i] = x

\* the ignore names compared with the file name only
IgnoredByFileName(parts, ignore) == parts[Len(parts)] \in ignore

\* any(ig in path.parts for ig in ignore)
Ignored(parts, ignore) == \E ig \in ignore : InList(ig, parts)

\* a file exactly at the limit counted as too large
TooLargeAtLimit(st, cfg) == st.st_size >= cfg.max_file_size

\* path.stat().st_size > config["max_file_size"]
TooLarge(st, cfg) == st.st_size > cfg.max_file_size

\* path.suffix.lstrip(".").lower()
Ext(parts) == Lower(LStripDot(Suffix(parts[Len(parts)])))

\* config["enable_only_formats"] and ext not in config["only_formats"]
FormatRejected(parts, cfg) ==
    cfg.enable_only_formats /\ ~InList(Ext(parts), cfg.only_formats)

\* main calls list_files(root, config): the rglob generator is created
ListFilesStart ==
    /\ pc = "list_files"
    /\ \E walk \in RglobRoot(rootKind, DOMAIN fs) : pending' = walk
    /\ collected' = <<>>
    /\ pc' = "rglob"
    /\ UNCHANGED <<rootKind, fs, config, md, todo, failed, tree, disk, now, resolved, added>>

\* one turn of `for path in root.rglob("*")`
VisitPath ==
    /\ pc = "rglob"
    /\ pending # <<>>
    /\ LET path == Head(pending)
           skip == /\ pending' = Tail(pending)
                   /\ UNCHANGED <<pc, collected>>
           raise == /\ pc' = "raised"
                    /\ UNCHANGED <<pending, collected>>
       IN IF IsFileRaises(fs, path) THEN raise
          ELSE IF ~IsFile(fs, path) THEN skip
          ELSE IF Ignored(RootParts \o path, config.ignore) THEN skip
          ELSE IF StatRaises(fs, path) THEN raise
          ELSE IF TooLarge(fs[path], config) THEN skip
          ELSE IF FormatRejected(path, config) THEN skip
          ELSE /\ collected' = Append(collected, path)
               /\ pending' = Tail(pending)
               /\ pc' = pc
    /\ UNCHANGED <<rootKind, fs, config, md, todo, failed, tree, disk, now, resolved, added>>

\* `return collected`; main runs the progress bar and goes on to bundle_files
ListFilesReturn ==
    /\ pc = "rglob"
    /\ pending = <<>>
    /\ pc' = "bundle_files"
    /\ UNCHANGED <<rootKind, fs, config, pending, collected, md, todo, failed, tree,
                   disk, now, resolved, added>>

\* the variables a run has not touched yet
Untouched ==
    /\ pending = <<>>
    /\ collected = <<>>
    /\ md = <<>>
    /\ todo = <<>>
    /\ failed = {}
    /\ tree = <<>>
    /\ disk = [exists |-> TRUE, files |-> <<>>]
    /\ now = 0
    /\ resolved = <<>>
    /\ added = {}

InitWalk ==
    /\ rootKind = "dir"
    /\ fs \in FileSystems
    /\ config \in { [DefaultConfig EXCEPT !.ignore = ig, !.only_formats = of,
                                          !.enable_only_formats = en] :
                    ig \in IgnoreChoices, of \in OnlyFormatsChoices, en \in BOOLEAN }
    /\ pc = "list_files"
    /\ Untouched

NextWalk == ListFilesStart \/ VisitPath \/ ListFilesReturn

SpecWalk == InitWalk /\ [][NextWalk]_vars

----------------------------------------------------------------------------
(* generate_tree *)

\* the connectors and indents of render, in ASCII: "+-- " stands for the
\* closing connector (U+2514 U+2500 U+2500 space), "|-- " for the continuing
\* one (U+251C ...), "|   " for the vertical bar indent (U+2502 and 3 spaces)
ConnLast   == "+-- "
ConnMid    == "|-- "
IndentLast == "    "
IndentMid  == "|   "

\* The nested dict `tree`, flattened: one entry per key, in insertion order.
\* path is the key with the keys above it, isdir tells a dict from None.

\* cur.setdefault(p, {}) for a directory part, cur[parts[-1]] = None for the file
SetKey(entries, path, isdir) ==
    IF \E i \in 1..Len(entries) : entries[i].path = path
    THEN IF isdir THEN entries
         ELSE [i \in 1..Len(entries) |->
                 IF entries[i].path = path THEN [path |-> path, isdir |-> FALSE]
                 ELSE entries[i]]
    ELSE Append(entries, [path |-> path, isdir |-> isdir])

\* the body of `for f in files` for one file: its directories, then the file
RECURSIVE InsertParts(_, _, _)
InsertParts(entries, rel, k) ==
    IF k > Len(rel) THEN entries
    ELSE InsertParts(SetKey(entries, SubSeq(rel, 1, k), k < Len(rel)), rel, k + 1)

\* the loop `for f in files`
RECURSIVE BuildTree(_, _)
BuildTree(entries, files) ==
    IF files = <<>> THEN entries
    ELSE BuildTree(InsertParts(entries, Head(files), 1), Tail(files))

\* name of an entry: the last part of its path
Name(entry) == entry.path[Len(entry.path)]

\* insertion of one item into a list sorted by name
RECURSIVE SortedInsert(_, _)
SortedInsert(sorted, e) ==
    IF sorted = <<>> THEN <<e>>
    ELSE IF StrLess(Name(e), Name(Head(sorted))) THEN <<e>> \o sorted
    ELSE <<Head(sorted)>> \o SortedInsert(Tail(sorted), e)

RECURSIVE SortedFrom(_, _)
SortedFrom(sorted, items) ==
    IF items = <<>> THEN sorted
    ELSE SortedFrom(SortedInsert(sorted, Head(items)), Tail(items))

\* the items left in insertion order
Unsorted(items) == items

\* sorted(subtree.items()): the keys of one dict are distinct, so the order
\* is the order of the names
Sorted(items) == SortedFrom(<<>>, items)

\* subtree.items(): the entries directly under dir, in insertion order
Items(entries, dir) ==
    SelectSeq(entries, LAMBDA e : /\ Len(e.path) = Len(dir) + 1
                                  /\ SubSeq(e.path, 1, Len(dir)) = dir)

\* render(subtree, prefix): one line per entry, a directory followed by the
\* lines of its subtree. A line is its prefix (a list of indents), its
\* connector and its name.
RECURSIVE Render(_, _, _)
RECURSIVE RenderItems(_, _, _, _)
Render(entries, dir, prefix) ==
    RenderItems(entries, Sorted(Items(entries, dir)), prefix, 1)

RenderItems(entries, items, prefix, i) ==
    IF i > Len(items) THEN <<>>
    ELSE LET last == (i = Len(items))
             line == [prefix |-> prefix,
                      connector |-> IF last THEN ConnLast ELSE ConnMid,
                      name |-> Name(items[i])]
             below == IF items[i].isdir
                      THEN Render(entries, items[i].path,
                                  Append(prefix, IF last THEN IndentLast ELSE IndentMid))
                      ELSE <<>>
         IN <<line>> \o below \o RenderItems(entries, items, prefix, i + 1)

\* generate_tree(root, files); files holds the parts relative to root
GenerateTree(files) == Render(BuildTree(<<>>, files), <<>>, <<>>)

\* the file lists of the model: up to MaxList distinct files in any order
FileLists ==
    UNION { Perms(F) : F \in {S \in SUBSET PathUniverse : Cardinality(S) <= MaxList} }

\* a call generate_tree(root, files)
GenerateTreeCall ==
    /\ pc = "generate_tree"
    /\ tree' = GenerateTree(collected)
    /\ pc' = "tree_done"
    /\ UNCHANGED <<rootKind, fs, config, pending, collected, md, todo, failed,
                   disk, now, resolved, added>>

InitTree ==
    /\ rootKind = "dir"
    /\ fs = <<>>
    /\ config = DefaultConfig
    /\ pc = "generate_tree"
    /\ collected \in FileLists
    /\ pending = <<>> /\ md = <<>> /\ todo = <<>> /\ failed = {} /\ tree = <<>>
    /\ disk = [exists |-> TRUE, files |-> <<>>]
    /\ now = 0 /\ resolved = <<>> /\ added = {}

NextTree == GenerateTreeCall

SpecTree == InitTree /\ [][NextTree]_vars

----------------------------------------------------------------------------
(* bundle_files *)

\* The document is the list of the pieces bundle_files appends to md.

\* "# ... SnapFold Project Snapshot\n\n" and "**Generated:** <now>\n\n"
Header(clock) == <<[chunk |-> "title"], [chunk |-> "generated", at |-> clock]>>

\* "## ... Project Structure\n" and "```\n" + generate_tree(root, files) + "```\n\n"
TreeBlock(files) ==
    <<[chunk |-> "tree_heading"], [chunk |-> "tree", lines |-> GenerateTree(files)]>>

\* f"---\n### `{rel}`\n```{f.suffix.lstrip('.')}\n"
SectionHead(rel) ==
    [chunk |-> "section", rel |-> rel, fence |-> LStripDot(Suffix(rel[Len(rel)]))]

\* what Path(f).read_text(encoding="utf-8") does: it returns the text or raises
ReadOutcomes == {"ok", "UnicodeDecodeError", "PermissionError"}

\* content + "\n```\n\n", content being the text of the file or
\* f"[Error reading file: {e}]"
SectionBody(rel, outcome) ==
    IF outcome = "ok"
    THEN [chunk |-> "content", text |-> [file |-> rel]]
    ELSE [chunk |-> "content", text |-> [error |-> outcome]]

\* the tree overview written whatever include_tree says
BundleStartAlwaysTree ==
    /\ pc = "bundle_files"
    /\ md' = Header(now) \o TreeBlock(collected)
    /\ todo' = collected
    /\ failed' = {}
    /\ pc' = "for_files"
    /\ UNCHANGED <<rootKind, fs, config, pending, collected, tree, disk, now, resolved, added>>

\* bundle_files up to its for loop: the header and, if asked for, the tree
BundleStart ==
    /\ pc = "bundle_files"
    /\ md' = Header(now) \o (IF config.include_tree THEN TreeBlock(collected) ELSE <<>>)
    /\ todo' = collected
    /\ failed' = {}
    /\ pc' = "for_files"
    /\ UNCHANGED <<rootKind, fs, config, pending, collected, tree, disk, now, resolved, added>>

\* a failing read ends the loop instead of being caught
BundleFileUncaught ==
    /\ pc = "for_files"
    /\ todo # <<>>
    /\ \E outcome \in ReadOutcomes :
         IF outcome = "ok"
         THEN /\ md' = md \o <<SectionHead(Head(todo)), SectionBody(Head(todo), outcome)>>
              /\ failed' = failed
              /\ todo' = Tail(todo)
         ELSE /\ md' = md \o <<SectionHead(Head(todo))>>
              /\ failed' = failed \cup {Len(collected) - Len(todo) + 1}
              /\ todo' = <<>>
    /\ UNCHANGED <<rootKind, fs, config, pc, pending, collected, tree, disk, now, resolved, added>>

\* one turn of `for f in files`: the section of f, its content read inside try
BundleFile ==
    /\ pc = "for_files"
    /\ todo # <<>>
    /\ \E outcome \in ReadOutcomes :
         /\ md' = md \o <<SectionHead(Head(todo)), SectionBody(Head(todo), outcome)>>
         /\ failed' = IF outcome = "ok" THEN failed
                      ELSE failed \cup {Len(collected) - Len(todo) + 1}
    /\ todo' = Tail(todo)
    /\ UNCHANGED <<rootKind, fs, config, pc, pending, collected, tree, disk, now, resolved, added>>

\* `return md`; main goes on to save_output
BundleReturn ==
    /\ pc = "for_files"
    /\ todo = <<>>
    /\ pc' = "save_output"
    /\ UNCHANGED <<rootKind, fs, config, pending, collected, md, todo, failed, tree,
                   disk, now, resolved, added>>

InitBundle ==
    /\ rootKind = "dir"
    /\ fs = <<>>
    /\ config \in {[DefaultConfig EXCEPT !.include_tree = t] : t \in BOOLEAN}
    /\ pc = "bundle_files"
    /\ collected \in FileLists
    /\ pending = <<>> /\ md = <<>> /\ todo = <<>> /\ failed = {} /\ tree = <<>>
    /\ disk = [exists |-> TRUE, files |-> <<>>]
    /\ now = 0 /\ resolved = <<>> /\ added = {}

NextBundle == BundleStart \/ BundleFile \/ BundleReturn

SpecBundle == InitBundle /\ [][NextBundle]_vars

----------------------------------------------------------------------------
(* get_unique_output_path and save_output *)

\* clock ticks in one minute
TicksPerMinute == 2

\* datetime.now().strftime("%Y-%m-%d_%H-%M"): the clock cut down to the minute
Stamp(clock) == clock \div TicksPerMinute

\* A file name of the output folder: stem, mark and extension, the mark being
\* empty, "(i)" or "-<stamp>".

\* f"{stem}{ext}"
PlainName(stem, ext) == [stem |-> stem, mark |-> <<>>, ext |-> ext]

\* f"{stem}({i}){ext}"
NumberedName(stem, i, ext) == [stem |-> stem, mark |-> <<"(", i, ")">>, ext |-> ext]

\* f"{stem}-{ts}{ext}"
StampedName(stem, ts, ext) == [stem |-> stem, mark |-> <<"-", ts>>, ext |-> ext]

\* str(config.get("naming_mode", "timestamp")).lower()
LowerMode(mode) == IF mode = "Increment" THEN "increment" ELSE mode

\* ext = out.suffix or ".md"
OutExt(cfg) == IF cfg.output.suffix = "" THEN ".md" ELSE cfg.output.suffix

\* final_path.exists()
Exists(folder, name) == name \in DOMAIN folder.files

\* the loop left after one turn, whether or not the name is taken
IncrementOnce(folder, stem, ext, i) == NumberedName(stem, i + 1, ext)

\* the loop of the increment branch, entered with i and f"{stem}({i}){ext}" taken
RECURSIVE Increment(_, _, _, _)
Increment(folder, stem, ext, i) ==
    IF Exists(folder, NumberedName(stem, i + 1, ext))
    THEN Increment(folder, stem, ext, i + 1)
    ELSE NumberedName(stem, i + 1, ext)

\* the overwrite branch probing for a free name like the increment branch
GetUniqueOutputPathProbing(cfg, folder, clock) ==
    LET stem == cfg.output.stem
        ext == OutExt(cfg)
        naming_mode == LowerMode(cfg.naming_mode)
    IN IF naming_mode = "timestamp" THEN StampedName(stem, Stamp(clock), ext)
       ELSE IF naming_mode \in {"increment", "overwrite"}
            THEN IF Exists(folder, PlainName(stem, ext))
                 THEN Increment(folder, stem, ext, 1)
                 ELSE PlainName(stem, ext)
       ELSE StampedName(stem, Stamp(clock), ext)

\* get_unique_output_path(config): the file name chosen inside the folder
GetUniqueOutputPath(cfg, folder, clock) ==
    LET stem == cfg.output.stem
        ext == OutExt(cfg)
        naming_mode == LowerMode(cfg.naming_mode)
    IN IF naming_mode = "timestamp" THEN StampedName(stem, Stamp(clock), ext)
       ELSE IF naming_mode = "increment"
            THEN IF Exists(folder, PlainName(stem, ext))
                 THEN Increment(folder, stem, ext, 1)
                 ELSE PlainName(stem, ext)
       ELSE IF naming_mode = "overwrite" THEN PlainName(stem, ext)
       ELSE StampedName(stem, Stamp(clock), ext)

\* folder.mkdir(parents=True, exist_ok=True)
Mkdir(folder) == [folder EXCEPT !.exists = TRUE]

\* open(path, "w").write(md): the file is created or replaced
WriteFile(folder, name, text) ==
    [folder EXCEPT !.files = [n \in DOMAIN folder.files \cup {name} |->
                                IF n = name THEN text ELSE folder.files[n]]]

\* save_output(md, config): the path (and with it the folder), then the write
SaveOutput ==
    /\ pc = "save_output"
    /\ LET path == GetUniqueOutputPath(config, disk, now)
       IN /\ disk' = WriteFile(Mkdir(disk), path, md)
          /\ resolved' = Append(resolved, [path |-> path, before |-> DOMAIN disk.files])
    /\ pc' = "done"
    /\ UNCHANGED <<rootKind, fs, config, pending, collected, md, todo, failed, tree, now, added>>

\* the program is started again and its run reaches save_output with a new
\* document (of an empty tree, without tree overview)
NextRun ==
    /\ pc = "done"
    /\ Len(resolved) < MaxRuns
    /\ md' = Header(now)
    /\ pc' = "save_output"
    /\ UNCHANGED <<rootKind, fs, config, pending, collected, todo, failed, tree,
                   disk, now, resolved, added>>

\* time passes
ClockTick ==
    /\ now < MaxClock
    /\ now' = now + 1
    /\ UNCHANGED <<rootKind, fs, config, pc, pending, collected, md, todo, failed, tree,
                   disk, resolved, added>>

\* names another program may give a file of the output folder
OtherNames ==
    {PlainName("SnapFold", ".md"), NumberedName("SnapFold", 2, ".md"),
     NumberedName("SnapFold", 3, ".md"), StampedName("SnapFold", 0, ".md")}

\* another program creates a file in the output folder
ExternalCreate ==
    /\ disk.exists
    /\ Cardinality(added) < MaxAdded
    /\ \E name \in OtherNames \ DOMAIN disk.files :
         /\ disk' = WriteFile(disk, name, <<>>)
         /\ added' = added \cup {name}
    /\ UNCHANGED <<rootKind, fs, config, pc, pending, collected, md, todo, failed, tree,
                   now, resolved>>

\* the output folders a run may find: missing, or holding some earlier outputs
Folders ==
    {[exists |-> FALSE, files |-> <<>>]}
        \cup {[exists |-> TRUE, files |-> [n \in F |-> <<>>]] :
              F \in SUBSET {PlainName("SnapFold", ".md"), NumberedName("SnapFold", 2, ".md"),
                            NumberedName("SnapFold", 3, ".md")}}

InitNaming ==
    /\ rootKind = "dir"
    /\ fs = <<>>
    /\ config \in {[DefaultConfig EXCEPT !.naming_mode = m, !.output.suffix = x] :
                   m \in NamingModes, x \in {".md", ""}}
    /\ pc = "save_output"
    /\ md = Header(0)
    /\ disk \in Folders
    /\ pending = <<>> /\ collected = <<>> /\ todo = <<>> /\ failed = {} /\ tree = <<>>
    /\ now = 0 /\ resolved = <<>> /\ added = {}

NextNaming == SaveOutput \/ NextRun \/ ClockTick \/ ExternalCreate

SpecNaming == InitNaming /\ [][NextNaming]_vars

----------------------------------------------------------------------------
(* main *)

\* main() from load_config to the end: list_files, bundle_files, save_output
Init ==
    /\ rootKind \in {"dir", "file", "missing"}
    /\ fs \in IF rootKind = "dir" THEN FileSystems ELSE {<<>>}
    /\ config \in {[DefaultConfig EXCEPT !.include_tree = t, !.naming_mode = m] :
                   t \in BOOLEAN, m \in {"increment", "overwrite"}}
    /\ pc = "list_files"
    /\ Untouched

Next ==
    \/ ListFilesStart
    \/ VisitPath
    \/ ListFilesReturn
    \/ BundleStart
    \/ BundleFile
    \/ BundleReturn
    \/ SaveOutput

Spec == Init /\ [][Next]_vars

----------------------------------------------------------------------------
(* Properties of list_files (SpecWalk) *)

\* list_files has returned its list to main
Listed == pc = "bundle_files"

\* position of a file in a list, 0 if it is not in it
InCollected(f) == \E i \in 1..Len(collected) : collected[i] = f

\* the root-relative path as one string: the parts joined by "/"
RECURSIVE RelString(_)
RelString(rel) ==
    IF Len(rel) = 1 THEN rel[1] ELSE rel[1] \o <<"/">> \o RelString(Tail(rel))

\* some part of the absolute path /r/<rel> is an ignore name
HasIgnoredPart(rel) ==
    LET parts == <<<<"/">>, <<"r">>>> \o rel
    IN \E i \in 1..Len(parts) : parts[i] \in config.ignore

\* the lower-cased extension of the files of the model, no leading dot
ExtensionOf(rel) ==
    LET name == rel[Len(rel)]
    IN CASE name = <<"b", ".", "J", "S">> -> <<"j", "s">>
         [] name = <<"a", ".", "j", "s">> -> <<"j", "s">>
         [] name = <<"c", ".", "p", "y">> -> <<"p", "y">>
         [] name = <<"n">> -> <<>>

\* C2: the list list_files returns is in lexical order of the root-relative
\* paths, whatever order the file system enumerates the entries in
C2_ListInLexicalOrder ==
    Listed => \A i, j \in 1..Len(collected) :
                i < j => StrLess(RelString(collected[i]), RelString(collected[j]))

\* C5: a file with a part of its path in the ignore set is never in the list,
\* whatever its size and extension, and is left out before its size is asked
\* for; a file with no such part that passes the other rules is in the list
C5_IgnoreRuleEveryPart ==
    /\ \A f \in DOMAIN fs : HasIgnoredPart(f) => ~InCollected(f)
    /\ pc = "raised" =>
         LET f == Head(pending)
         IN fs[f].err = "EACCES" \/ (fs[f].err = "removed" /\ ~HasIgnoredPart(f))
    /\ Listed =>
         \A f \in DOMAIN fs :
            ( /\ ~HasIgnoredPart(f)
              /\ fs[f].err = "none"
              /\ fs[f].st_size <= config.max_file_size
              /\ ~config.enable_only_formats )
            => InCollected(f)

\* an ignored file at depth, an ignored file name and a file under a
\* directory that differs from an ignore name in case only, in one list
C5_Witness ==
    /\ Listed
    /\ config.ignore = {<<"n">>}
    /\ ~config.enable_only_formats
    /\ DOMAIN fs = {<<nN, nD, nA>>, <<nD, nN>>, <<nUN, nC>>}
    /\ fs[<<nN, nD, nA>>] = [err |-> "removed", st_size |-> 0]
    /\ fs[<<nD, nN>>].err = "none"
    /\ collected = <<<<nUN, nC>>>>

\* C6: of the regular files that pass the ignore rule, list_files returns
\* exactly those of at most max_file_size bytes whose lower-cased extension
\* is in only_formats or that are listed with enable_only_formats off
C6_SizeAndFormatRules ==
    Listed =>
      \A f \in DOMAIN fs :
         (fs[f].err = "none" /\ ~HasIgnoredPart(f)) =>
            ( InCollected(f) <=>
                /\ fs[f].st_size <= config.max_file_size
                /\ \/ ~config.enable_only_formats
                   \/ \E k \in 1..Len(config.only_formats) :
                         config.only_formats[k] = ExtensionOf(f) )

\* b.JS at the limit is listed through its lower-cased extension, d/a.js one
\* byte over the limit is not, N/c.py is of no listed format
C6_Witness ==
    /\ Listed
    /\ config.enable_only_formats
    /\ config.ignore = {}
    /\ DOMAIN fs = {<<nB>>, <<nD, nA>>, <<nUN, nC>>}
    /\ fs[<<nB>>] = [err |-> "none", st_size |-> 2097152]
    /\ fs[<<nD, nA>>] = [err |-> "none", st_size |-> 2097153]
    /\ fs[<<nUN, nC>>] = [err |-> "none", st_size |-> 2097152]
    /\ collected = <<<<nB>>>>

\* C7: a file whose size cannot be determined is left out and the walk goes
\* on: list_files does not raise, and its list holds no such file
C7_UnreadableSizeSkipped ==
    /\ pc # "raised"
    /\ Listed => \A f \in DOMAIN fs : fs[f].err # "none" => ~InCollected(f)

----------------------------------------------------------------------------
(* Properties of bundle_files (SpecBundle) *)

\* bundle_files has returned the document to main
Bundled == pc = "save_output"

\* the positions of the document that open a file section
SectionStarts == {i \in 1..Len(md) : md[i].chunk = "section"}

\* the position at which the section of the k-th file opens
SectionStart(k) == (IF config.include_tree THEN 4 ELSE 2) + 2 * k - 1

\* C3: no failing read ends bundle_files: the document it returns has, for
\* every file of the list, a section whose content is the error placeholder
\* if the read of that file failed and the text of the file otherwise
C3_ReadFailureStaysLocal ==
    /\ failed \subseteq 1..(Len(collected) - Len(todo))
    /\ Bundled =>
         /\ todo = <<>>
         /\ Len(md) = SectionStart(Len(collected)) + 1
         /\ \A k \in 1..Len(collected) :
               LET body == md[SectionStart(k) + 1]
               IN /\ md[SectionStart(k)].chunk = "section"
                  /\ md[SectionStart(k)].rel = collected[k]
                  /\ body.chunk = "content"
                  /\ IF k \in failed
                     THEN body.text \in {[error |-> e] : e \in {"UnicodeDecodeError", "PermissionError"}}
                     ELSE body.text = [file |-> collected[k]]

\* the read of the second of three files failed, the other two were read
C3_Witness ==
    /\ Bundled
    /\ Len(collected) = 3
    /\ failed = {2}
    /\ md[Len(md)].text = [file |-> collected[3]]
    /\ md[Len(md) - 2].text = [error |-> "UnicodeDecodeError"]
    /\ md[Len(md) - 4].text = [file |-> collected[1]]

C8_WitnessEmpty ==
    /\ Bundled
    /\ ~config.include_tree
    /\ collected = <<>>
    /\ Len(md) = 2

----------------------------------------------------------------------------
(* Properties of generate_tree (SpecTree) *)

\* depth of a line: the number of indents before its connector
Depth(i) == Len(tree[i].prefix) + 1

\* the line of the directory line i lies in, 0 at the top level
ParentLine(i) ==
    LET above == {j \in 1..(i - 1) : Depth(j) = Depth(i) - 1}
    IN IF above = {} THEN 0 ELSE CHOOSE j \in above : \A k \in above : k <= j

\* the relative path line i stands for
RECURSIVE LinePath(_)
LinePath(i) ==
    IF ParentLine(i) = 0 THEN <<tree[i].name>>
    ELSE Append(LinePath(ParentLine(i)), tree[i].name)

\* the lines after i that lie in the same directory
LaterSiblings(i) ==
    {j \in (i + 1)..Len(tree) : Depth(j) = Depth(i) /\ ParentLine(j) = ParentLine(i)}

\* the files rendered, as a set
FileSet == {collected[i] : i \in 1..Len(collected)}

\* C9: the rendered tree depends on the set of files only; every file and
\* every directory above a file has exactly one line; the lines of one
\* directory are in lexical order of their names, the last with the closing
\* connector and the others with the continuing one; no files, no lines
C9_TreeIsSortedAndStable ==
    pc = "tree_done" =>
      /\ \A other \in Perms(FileSet) : GenerateTree(other) = tree
      /\ Len(tree) = Cardinality(Nodes(FileSet))
      /\ \A n \in Nodes(FileSet) :
            Cardinality({i \in 1..Len(tree) : LinePath(i) = n}) = 1
      /\ \A i \in 1..Len(tree) :
            /\ Depth(i) > 1 => ParentLine(i) # 0
            /\ \A j \in LaterSiblings(i) : StrLess(tree[i].name, tree[j].name)
            /\ tree[i].connector = (IF LaterSiblings(i) = {} THEN "+-- " ELSE "|-- ")
            /\ ParentLine(i) # 0 =>
                 tree[i].prefix =
                    Append(tree[ParentLine(i)].prefix,
                           IF tree[ParentLine(i)].connector = "+-- " THEN "    " ELSE "|   ")
      /\ collected = <<>> => tree = <<>>

\* a list that is not in the order of the names: d/n before d/a.js, after N/c.py
C9_Witness ==
    /\ pc = "tree_done"
    /\ collected = <<<<nUN, nC>>, <<nD, nN>>, <<nD, nA>>>>
    /\ Len(tree) = 5
    /\ tree[4].name = nA
    /\ tree[5].name = nN
    /\ tree[3].connector = "+-- "

----------------------------------------------------------------------------
(* Properties of the naming modes (SpecNaming) *)

\* <folder>/SnapFold.md and <folder>/SnapFold(i).md
BaseName == [stem |-> "SnapFold", mark |-> <<>>, ext |-> ".md"]

Numbered(i) == [stem |-> "SnapFold", mark |-> <<"(", i, ")">>, ext |-> ".md"]

\* C1: under increment every save_output writes a path that did not exist:
\* SnapFold.md if that is free, else SnapFold(i).md for the least free i >= 2;
\* starting from an empty folder the outputs are SnapFold.md, SnapFold(2).md,
\* SnapFold(3).md, ... and every file found stays as it was
C1_IncrementPicksFirstFreeName ==
    config.naming_mode \in {"increment", "Increment"} =>
      \A k \in 1..Len(resolved) :
         LET r == resolved[k]
         IN /\ r.path \notin r.before
            /\ BaseName \notin r.before => r.path = BaseName
            /\ BaseName \in r.before =>
                 \E i \in 2..(Cardinality(r.before) + 1) :
                    /\ r.path = Numbered(i)
                    /\ \A j \in 2..(i - 1) : Numbered(j) \in r.before
            /\ (resolved[1].before = {} /\ added = {}) =>
                 r.path = (IF k = 1 THEN BaseName ELSE Numbered(k))
            /\ \A j \in 1..(k - 1) : resolved[j].path # r.path
            /\ \A n \in r.before : n \in DOMAIN disk.files
            /\ \A n \in resolved[1].before : disk.files[n] = <<>>

\* three outputs into a folder that was empty
C1_Witness ==
    /\ config.naming_mode = "increment"
    /\ Len(resolved) = 3
    /\ resolved[1].before = {}
    /\ added = {}
    /\ resolved[3].path = Numbered(3)
    /\ DOMAIN disk.files = {BaseName, Numbered(2), Numbered(3)}

\* C10: under overwrite every save_output writes <folder>/SnapFold.md,
\* whatever the folder holds and whatever is added to it in between, so the
\* outputs of all runs take one file
C10_OverwriteSamePath ==
    config.naming_mode = "overwrite" =>
      /\ \A k \in 1..Len(resolved) : resolved[k].path = BaseName
      /\ Len(resolved) >= 1 =>
           /\ DOMAIN disk.files = resolved[1].before \cup added \cup {BaseName}
           /\ pc = "done" => disk.files[BaseName] = md

\* two outputs, the folder held SnapFold.md and got SnapFold(2).md in between
C10_Witness ==
    /\ config.naming_mode = "overwrite"
    /\ Len(resolved) = 2
    /\ BaseName \in resolved[1].before
    /\ Numbered(2) \notin resolved[1].before
    /\ Numbered(2) \in resolved[2].before
    /\ resolved[2].path = resolved[1].path

----------------------------------------------------------------------------
(* Properties of main (Spec) *)

\* C4: with a scan root that is missing or not a directory the run fails:
\* list_files yields nothing, no document is bundled, no output is written
C4_InvalidRootFails ==
    rootKind # "dir" =>
      /\ collected = <<>>
      /\ pc \notin {"bundle_files", "for_files", "save_output", "done"}
      /\ md = <<>>
      /\ resolved = <<>>
====
